---- MODULE Spec2Model ----
(***************************************************************************)
(* Model of the runtime tree-command parser emitted by                     *)
(* scripts/generate_lark_parser.py (the TypeScript text of the js_code     *)
(* template, lines 24-232).  Strings are sequences of one-character        *)
(* strings; JavaScript objects are sequences of <<key, value>> pairs kept  *)
(* in property-creation order.                                             *)
(***************************************************************************)
EXTENDS Integers, Sequences, FiniteSets, TLC

VARIABLES
    written,        \* the command as written: [head, segs] (the test vector)
    commandString,  \* argument of parseLarkTreeCommand / text handed to the tokenizer
    pc,             \* position of the call: "parse", "dispatch", "tokenize", "done"
    commandType,    \* commandMatch[1].toUpperCase()
    remainder,      \* cmd.slice(commandMatch[0].length)
    attributes,     \* object returned by parseAttributes
    result,         \* ParsedTreeCommand returned, or NoValue
    error           \* Error thrown, or NoValue

vars == <<written, commandString, pc, commandType, remainder, attributes, result, error>>

(***************************************************************************)
(* Bounds                                                                  *)
(***************************************************************************)
MaxAttrs == 3
MaxTokAttrs == 2

(***************************************************************************)
(* Characters                                                              *)
(***************************************************************************)
LowerSeq == <<"a","b","c","d","e","f","g","h","i","j","k","l","m",
              "n","o","p","q","r","s","t","u","v","w","x","y","z">>
UpperSeq == <<"A","B","C","D","E","F","G","H","I","J","K","L","M",
              "N","O","P","Q","R","S","T","U","V","W","X","Y","Z">>
DigitSeq == <<"0","1","2","3","4","5","6","7","8","9">>

Range(s) == { s[i] : i \in DOMAIN s }
Lower == Range(LowerSeq)
Upper == Range(UpperSeq)
Digit == Range(DigitSeq)

BS == "\\"
DQ == "\""
SQ == "'"
NL == "\n"
CR == "\r"
TAB == "\t"

\* \s of the keyword regex and of String.prototype.trim
WhiteSpace == {" ", TAB, NL, CR}
\* \w
WordChar == Lower \cup Upper \cup Digit \cup {"_"}
\* [a-zA-Z_]
BareStart == Lower \cup Upper \cup {"_"}
\* [a-zA-Z0-9_-]
BareChar == WordChar \cup {"-"}

IndexIn(c, s) == CHOOSE i \in DOMAIN s : s[i] = c

toLowerChar(c) == IF c \in Upper THEN LowerSeq[IndexIn(c, UpperSeq)] ELSE c
toUpperChar(c) == IF c \in Lower THEN UpperSeq[IndexIn(c, LowerSeq)] ELSE c

toLowerCase(s) == [i \in DOMAIN s |-> toLowerChar(s[i])]
toUpperCase(s) == [i \in DOMAIN s |-> toUpperChar(s[i])]

\* s.slice(n): the characters of s from 0-based index n on
Slice(s, n) == IF n >= Len(s) THEN <<>> ELSE SubSeq(s, n + 1, Len(s))

\* s.startsWith(p)
startsWith(s, p) == Len(s) >= Len(p) /\ SubSeq(s, 1, Len(p)) = p

\* s.trim()
trim(s) ==
    LET keep == { i \in DOMAIN s : s[i] \notin WhiteSpace }
    IN IF keep = {} THEN <<>>
       ELSE LET lo == CHOOSE i \in keep : \A j \in keep : i <= j
                hi == CHOOSE i \in keep : \A j \in keep : j <= i
            IN SubSeq(s, lo, hi)

\* JavaScript undefined, and the "no value" of a variable not yet assigned
\* (a string, an object, an error)
Undefined == <<"undefined">>
NoValue == <<"none">>
NoObject == << <<NoValue, NoValue>> >>
NoError == [kind |-> "none", cmd |-> NoValue, names |-> <<>>]

\* ToBoolean of a string-or-undefined value
Truthy(v) == v # Undefined /\ v # <<>>

(***************************************************************************)
(* JavaScript objects with string keys                                     *)
(***************************************************************************)
HasKey(obj, k) == \E i \in DOMAIN obj : obj[i][1] = k

\* obj[k]
Get(obj, k) ==
    IF HasKey(obj, k) THEN obj[CHOOSE i \in DOMAIN obj : obj[i][1] = k][2]
    ELSE Undefined

\* obj[k] = v : an existing property keeps its place and takes the new value
Put(obj, k, v) ==
    IF HasKey(obj, k)
    THEN [i \in DOMAIN obj |-> IF obj[i][1] = k THEN <<k, v>> ELSE obj[i]]
    ELSE Append(obj, <<k, v>>)

DigitValue(c) == IndexIn(c, DigitSeq) - 1

RECURSIVE NumValue(_)
NumValue(k) ==
    IF k = <<>> THEN 0
    ELSE 10 * NumValue(SubSeq(k, 1, Len(k) - 1)) + DigitValue(k[Len(k)])

\* a canonical array index: property keys of this shape are enumerated first,
\* in ascending numeric order (keys of fewer than 10 digits are below 2^32 - 1)
IsArrayIndex(k) ==
    /\ Len(k) > 0
    /\ Len(k) < 10
    /\ \A i \in DOMAIN k : k[i] \in Digit
    /\ (Len(k) = 1 \/ k[1] # "0")

RECURSIVE SortAscending(_)
SortAscending(S) ==
    IF S = {} THEN <<>>
    ELSE LET m == CHOOSE x \in S : \A y \in S : NumValue(x) <= NumValue(y)
         IN <<m>> \o SortAscending(S \ {m})

CreationOrderKeys(obj) == [i \in DOMAIN obj |-> obj[i][1]]

IsNotArrayIndex(k) == ~IsArrayIndex(k)

\* Object.keys(obj)
ObjectKeys(obj) ==
    LET ks == CreationOrderKeys(obj)
    IN SortAscending({ k \in Range(ks) : IsArrayIndex(k) })
         \o SelectSeq(ks, IsNotArrayIndex)

RECURSIVE CopyProps(_, _, _)
CopyProps(target, src, keys) ==
    IF keys = <<>> THEN target
    ELSE CopyProps(Put(target, Head(keys), Get(src, Head(keys))), src, Tail(keys))

\* { ...a, ...b }
Spread(a, b) == CopyProps(CopyProps(<<>>, a, ObjectKeys(a)), b, ObjectKeys(b))

(***************************************************************************)
(* parseAttributes                                                         *)
(***************************************************************************)
\* first position >= i whose character is outside class (greedy class*)
RECURSIVE RunEnd(_, _, _)
RunEnd(s, i, class) ==
    IF i <= Len(s) /\ s[i] \in class THEN RunEnd(s, i + 1, class) ELSE i

\* first position >= i whose character is q, or Len(s) + 1 (greedy [^q]*)
RECURSIVE RunEndNot(_, _, _)
RunEndNot(s, i, q) ==
    IF i <= Len(s) /\ s[i] # q THEN RunEndNot(s, i + 1, q) ELSE i

NoMatch == [found |-> FALSE, end |-> 0, m1 |-> Undefined,
            m2 |-> Undefined, m3 |-> Undefined, m4 |-> Undefined]

\* "([^"]*)"  or  '([^']*)'  at position v, quote character q
QuotedEnd(s, v, q) == RunEndNot(s, v + 1, q)
QuotedMatches(s, v, q) ==
    v <= Len(s) /\ s[v] = q /\ QuotedEnd(s, v, q) <= Len(s)

\* the regex /(\w+)=(?:"([^"]*)"|'([^']*)'|([a-zA-Z_][a-zA-Z0-9_-]*))/ anchored
\* at position p.  \w+ can only end at the end of the run of word characters,
\* since the next character must be "=".
MatchAt(s, p) ==
    LET q == RunEnd(s, p, WordChar)
        v == q + 1
        name == SubSeq(s, p, q - 1)
    IN IF q = p \/ q > Len(s) \/ s[q] # "=" THEN NoMatch
       ELSE IF QuotedMatches(s, v, DQ)
       THEN [found |-> TRUE, end |-> QuotedEnd(s, v, DQ) + 1, m1 |-> name,
             m2 |-> SubSeq(s, v + 1, QuotedEnd(s, v, DQ) - 1),
             m3 |-> Undefined, m4 |-> Undefined]
       ELSE IF QuotedMatches(s, v, SQ)
       THEN [found |-> TRUE, end |-> QuotedEnd(s, v, SQ) + 1, m1 |-> name,
             m2 |-> Undefined,
             m3 |-> SubSeq(s, v + 1, QuotedEnd(s, v, SQ) - 1),
             m4 |-> Undefined]
       ELSE IF v <= Len(s) /\ s[v] \in BareStart
       THEN [found |-> TRUE, end |-> RunEnd(s, v + 1, BareChar), m1 |-> name,
             m2 |-> Undefined, m3 |-> Undefined,
             m4 |-> SubSeq(s, v, RunEnd(s, v + 1, BareChar) - 1)]
       ELSE NoMatch

\* regex.exec(str) with the g flag: the leftmost match at or after lastIndex
\* (positions are 1-based here; end is the position after the match)
RECURSIVE exec(_, _)
exec(s, lastIndex) ==
    IF lastIndex > Len(s) THEN NoMatch
    ELSE LET m == MatchAt(s, lastIndex)
         IN IF m.found THEN m ELSE exec(s, lastIndex + 1)

\* value.replace(/pat/g, rep) for a literal pattern
RECURSIVE ReplaceAll(_, _, _)
ReplaceAll(s, pat, rep) ==
    IF Len(s) < Len(pat) THEN s
    ELSE IF SubSeq(s, 1, Len(pat)) = pat
    THEN rep \o ReplaceAll(Slice(s, Len(pat)), pat, rep)
    ELSE <<Head(s)>> \o ReplaceAll(Tail(s), pat, rep)

\* the chain of six replace calls
Unescape(value) ==
    LET r1 == ReplaceAll(value, <<BS, DQ>>, <<DQ>>)
        r2 == ReplaceAll(r1, <<BS, SQ>>, <<SQ>>)
        r3 == ReplaceAll(r2, <<BS, BS>>, <<BS>>)
        r4 == ReplaceAll(r3, <<BS, "n">>, <<NL>>)
        r5 == ReplaceAll(r4, <<BS, "r">>, <<CR>>)
        r6 == ReplaceAll(r5, <<BS, "t">>, <<TAB>>)
    IN r6

\* match[2] || match[3] || match[4]
Coalesce(m2, m3, m4) ==
    IF Truthy(m2) THEN m2 ELSE IF Truthy(m3) THEN m3 ELSE m4

\* const key = match[1].toLowerCase()
AttrKey(m) == toLowerCase(m.m1)

\* the value stored for one match
AttrValue(m) ==
    LET value == Coalesce(m.m2, m.m3, m.m4)
    IN IF Truthy(m.m2) \/ Truthy(m.m3) THEN Unescape(value) ELSE value

\* the assignment keeping the first value of a repeated key (a slip)
SetAttrFirstWins(attrs, k, v) ==
    IF HasKey(attrs, k) THEN attrs ELSE Append(attrs, <<k, v>>)

\* attributes[key] = value
SetAttr(attrs, k, v) == Put(attrs, k, v)

\* the while loop over regex.exec
RECURSIVE execLoop(_, _, _)
execLoop(s, lastIndex, attrs) ==
    LET m == exec(s, lastIndex)
    IN IF ~m.found THEN attrs
       ELSE execLoop(s, m.end, SetAttr(attrs, AttrKey(m), AttrValue(m)))

parseAttributes(str) == execLoop(str, 1, <<>>)

(***************************************************************************)
(* parseLarkTreeCommand and the five per-kind parsers                      *)
(***************************************************************************)
KeyType == <<"t","y","p","e">>
KeyId == <<"i","d">>
KeyParent == <<"p","a","r","e","n","t">>
KeyLabel == <<"l","a","b","e","l">>

ADD == <<"A","D","D">>
REMOVE == <<"R","E","M","O","V","E">>
MOVE == <<"M","O","V","E">>
RENAME == <<"R","E","N","A","M","E">>
SET == <<"S","E","T">>

\* the alternation (ADD|REMOVE|MOVE|RENAME|SET), in its order
Keywords == <<ADD, REMOVE, MOVE, RENAME, SET>>

\* ^kw\s+ with the i flag, for one alternative
KeywordMatches(cmd, kw) ==
    /\ Len(cmd) > Len(kw)
    /\ toUpperCase(SubSeq(cmd, 1, Len(kw))) = kw
    /\ cmd[Len(kw) + 1] \in WhiteSpace

\* cmd.match(/^(ADD|REMOVE|MOVE|RENAME|SET)\s+/i):
\* g1 is commandMatch[1], len0 is commandMatch[0].length
commandMatch(cmd) ==
    IF \E i \in DOMAIN Keywords : KeywordMatches(cmd, Keywords[i])
    THEN LET i == CHOOSE j \in DOMAIN Keywords :
                    /\ KeywordMatches(cmd, Keywords[j])
                    /\ \A k \in DOMAIN Keywords :
                          KeywordMatches(cmd, Keywords[k]) => j <= k
             n == Len(Keywords[i])
         IN [found |-> TRUE, g1 |-> SubSeq(cmd, 1, n),
             len0 |-> RunEnd(cmd, n + 1, WhiteSpace) - 1]
    ELSE [found |-> FALSE, g1 |-> Undefined, len0 |-> 0]

\* the prefix test made case-insensitive (a slip)
HasIdPrefixAnyCase(rem) == startsWith(toLowerCase(rem), <<"i","d","=">>)

\* remainder.startsWith('id=')
HasIdPrefix(rem) == startsWith(rem, <<"i","d","=">>)

\* the test reduced to "the key is absent" (a slip)
MissingOnlyIfAbsent(attrs, k) == ~HasKey(attrs, k)

\* !attributes.k
Missing(attrs, k) == ~Truthy(Get(attrs, k))

\* the test demanding that both be absent (a slip: && for ||)
MissingBoth(attrs, k1, k2) == Missing(attrs, k1) /\ Missing(attrs, k2)

\* !attributes.k1 || !attributes.k2
MissingEither(attrs, k1, k2) == Missing(attrs, k1) \/ Missing(attrs, k2)

IsNotId(k) == k # KeyId

\* the filter left out (a slip)
AllKeys(attrs) == ObjectKeys(attrs)

\* Object.keys(attributes).filter(k => k !== 'id')
extraAttrs(attrs) == SelectSeq(ObjectKeys(attrs), IsNotId)

\* const result = { type, id: '' }
InitialResult(type) == <<<<KeyType, type>>, <<KeyId, <<>>>>>>

\* return { ...result, ...attributes }
BuildResult(type, attrs) == Spread(InitialResult(type), attrs)

Throw(kind, type, names) == [kind |-> kind, cmd |-> type, names |-> names]

(***************************************************************************)
(* Command strings: a head (leading blanks, keyword, separator) followed   *)
(* by attribute segments name=value joined by single spaces, in the shape  *)
(* of the strings of validateLarkParserConsistency                         *)
(***************************************************************************)
Seg(name, quote, content) == [name |-> name, quote |-> quote, content |-> content]
Head_(lead, kw, sep) == [lead |-> lead, kw |-> kw, sep |-> sep]

RenderSeg(g) == g.name \o <<"=">> \o g.quote \o g.content \o g.quote

RECURSIVE RenderBody(_)
RenderBody(segs) ==
    IF segs = <<>> THEN <<>>
    ELSE IF Len(segs) = 1 THEN RenderSeg(segs[1])
    ELSE RenderSeg(Head(segs)) \o <<" ">> \o RenderBody(Tail(segs))

Render(w) == w.head.lead \o w.head.kw \o w.head.sep \o RenderBody(w.segs)

Heads ==
    { Head_(<<>>, ADD, <<" ">>),
      Head_(<<" ">>, <<"a","d","d">>, <<TAB," ">>),
      Head_(<<>>, REMOVE, <<" ">>),
      Head_(<<>>, MOVE, <<" ">>),
      Head_(<<>>, RENAME, <<" ">>),
      Head_(<<>>, SET, <<" ">>),
      Head_(<<>>, <<"F","O","O">>, <<" ">>) }

CommandSegs ==
    { Seg(KeyId, <<>>, <<"x">>),
      Seg(KeyId, <<>>, <<"y">>),
      Seg(<<"I","D">>, <<>>, <<"x">>),
      Seg(KeyId, <<DQ>>, <<>>),
      Seg(KeyId, <<>>, <<"1">>),
      Seg(KeyParent, <<>>, <<"y">>),
      Seg(KeyParent, <<DQ>>, <<>>),
      Seg(<<"L","A","B","E","L">>, <<>>, <<"a">>),
      Seg(KeyLabel, <<DQ>>, <<"b">>),
      Seg(KeyLabel, <<SQ>>, <<>>),
      Seg(KeyType, <<>>, <<"t">>),
      Seg(<<"1">>, <<>>, <<"z">>),
      Seg(<<"b">>, <<>>, <<"y">>) }

TokenizerSegs ==
    { Seg(KeyLabel, <<DQ>>, <<"a", BS, DQ, "b", BS, "n", "c">>),
      Seg(<<"k">>, <<DQ>>, <<BS, BS, "n">>),
      Seg(<<"k">>, <<DQ>>, <<"a", BS, "n", "b">>),
      Seg(<<"k">>, <<DQ>>, <<BS, "t", BS, "r">>),
      Seg(<<"k">>, <<DQ>>, <<BS, BS, BS, BS>>),
      Seg(<<"k">>, <<DQ>>, <<"a", NL, "b">>),
      Seg(<<"k">>, <<DQ>>, <<>>),
      Seg(<<"K">>, <<SQ>>, <<"a", DQ, "b">>),
      Seg(<<"j">>, <<SQ>>, <<"i", "t", BS, SQ, "s">>),
      Seg(<<"j">>, <<SQ>>, <<BS, BS, DQ>>),
      Seg(<<"j">>, <<>>, <<"x", "-", "1">>) }

\* sequences over S of length at most n
SeqsUpTo(S, n) == UNION { [1..m -> S] : m \in 0..n }

NoHead == Head_(<<>>, <<>>, <<>>)

(***************************************************************************)
(* State machine of one call of parseLarkTreeCommand                       *)
(***************************************************************************)
Init ==
    /\ written \in [head : Heads, segs : SeqsUpTo(CommandSegs, MaxAttrs)]
    /\ commandString = Render(written)
    /\ pc = "parse"
    /\ commandType = NoValue
    /\ remainder = NoValue
    /\ attributes = NoObject
    /\ result = NoObject
    /\ error = NoError

\* lines 46-55: trim, match the keyword, slice the remainder
ParseLarkTreeCommand ==
    /\ pc = "parse"
    /\ LET cmd == trim(commandString)
           m == commandMatch(cmd)
       IN IF ~m.found
          THEN /\ error' = Throw("UnrecognizedKeyword", NoValue, <<>>)
               /\ pc' = "done"
               /\ UNCHANGED <<commandType, remainder>>
          ELSE /\ commandType' = toUpperCase(m.g1)
               /\ remainder' = Slice(cmd, m.len0)
               /\ pc' = "dispatch"
               /\ error' = error
    /\ UNCHANGED <<written, commandString, attributes, result>>

Fail(kind, names) ==
    /\ error' = Throw(kind, commandType, names)
    /\ result' = result

Return(attrs) ==
    /\ result' = BuildResult(commandType, attrs)
    /\ error' = error

Finish ==
    /\ pc' = "done"
    /\ UNCHANGED <<written, commandString, commandType, remainder>>

\* lines 75-88
parseAddCommand ==
    /\ pc = "dispatch" /\ commandType = ADD
    /\ IF ~HasIdPrefix(remainder)
       THEN Fail("MissingIdPrefix", <<>>) /\ attributes' = attributes
       ELSE /\ attributes' = parseAttributes(remainder)
            /\ IF Missing(attributes', KeyId)
               THEN Fail("MissingRequiredAttribute", <<KeyId>>)
               ELSE Return(attributes')
    /\ Finish

\* lines 91-110
parseRemoveCommand ==
    /\ pc = "dispatch" /\ commandType = REMOVE
    /\ IF ~HasIdPrefix(remainder)
       THEN Fail("MissingIdPrefix", <<>>) /\ attributes' = attributes
       ELSE /\ attributes' = parseAttributes(remainder)
            /\ IF Missing(attributes', KeyId)
               THEN Fail("MissingRequiredAttribute", <<KeyId>>)
               ELSE IF Len(extraAttrs(attributes')) > 0
               THEN Fail("UnexpectedAttributes", extraAttrs(attributes'))
               ELSE Return(attributes')
    /\ Finish

\* lines 113-126
parseMoveCommand ==
    /\ pc = "dispatch" /\ commandType = MOVE
    /\ IF ~HasIdPrefix(remainder)
       THEN Fail("MissingIdPrefix", <<>>) /\ attributes' = attributes
       ELSE /\ attributes' = parseAttributes(remainder)
            /\ IF MissingEither(attributes', KeyId, KeyParent)
               THEN Fail("MissingRequiredAttribute", <<KeyId, KeyParent>>)
               ELSE Return(attributes')
    /\ Finish

\* lines 129-142
parseRenameCommand ==
    /\ pc = "dispatch" /\ commandType = RENAME
    /\ IF ~HasIdPrefix(remainder)
       THEN Fail("MissingIdPrefix", <<>>) /\ attributes' = attributes
       ELSE /\ attributes' = parseAttributes(remainder)
            /\ IF MissingEither(attributes', KeyId, KeyLabel)
               THEN Fail("MissingRequiredAttribute", <<KeyId, KeyLabel>>)
               ELSE Return(attributes')
    /\ Finish

\* lines 145-164
parseSetCommand ==
    /\ pc = "dispatch" /\ commandType = SET
    /\ IF ~HasIdPrefix(remainder)
       THEN Fail("MissingIdPrefix", <<>>) /\ attributes' = attributes
       ELSE /\ attributes' = parseAttributes(remainder)
            /\ IF Missing(attributes', KeyId)
               THEN Fail("MissingRequiredAttribute", <<KeyId>>)
               ELSE IF Len(extraAttrs(attributes')) = 0
               THEN Fail("EmptyAttributeSet", <<>>)
               ELSE Return(attributes')
    /\ Finish

\* the default branch of the switch (line 70) is unreachable: commandType is
\* always one of the five keywords, so it is no action of the model
Next ==
    \/ ParseLarkTreeCommand
    \/ parseAddCommand
    \/ parseRemoveCommand
    \/ parseMoveCommand
    \/ parseRenameCommand
    \/ parseSetCommand

Spec == Init /\ [][Next]_vars

(***************************************************************************)
(* The tokenizer called on its own                                         *)
(***************************************************************************)
InitTok ==
    /\ written \in [head : {NoHead}, segs : SeqsUpTo(TokenizerSegs, MaxTokAttrs)]
    /\ commandString = Render(written)
    /\ pc = "tokenize"
    /\ commandType = NoValue
    /\ remainder = NoValue
    /\ attributes = NoObject
    /\ result = NoObject
    /\ error = NoError

\* lines 170-196
ParseAttributesCall ==
    /\ pc = "tokenize"
    /\ attributes' = parseAttributes(commandString)
    /\ pc' = "done"
    /\ UNCHANGED <<written, commandString, commandType, remainder, result, error>>

NextTok == ParseAttributesCall

SpecTok == InitTok /\ [][NextTok]_vars

(***************************************************************************)
(* The command as written, read off the segments without the tokenizer     *)
(***************************************************************************)
Segs == written.segs

IsBareToken(c) ==
    c # <<>> /\ c[1] \in BareStart /\ \A i \in DOMAIN c : c[i] \in BareChar

\* the segment is a name=value pair of the attribute grammar: a bare token, or
\* quoted contents free of the quote character
WellFormed(g) ==
    IF g.quote = <<>> THEN IsBareToken(g.content)
    ELSE \A i \in DOMAIN g.content : <<g.content[i]>> # g.quote

Occurrences(k) ==
    { i \in DOMAIN Segs : WellFormed(Segs[i]) /\ toLowerCase(Segs[i].name) = k }

Last(S) == CHOOSE i \in S : \A j \in S : j <= i

LastValue(k) == Segs[Last(Occurrences(k))].content

\* the value the mapping is expected to hold for a written name
ExpectedValue(k) == IF LastValue(k) = <<>> THEN Undefined ELSE LastValue(k)

\* the command supplies a non-empty value for k
Supplies(k) == Occurrences(k) # {} /\ LastValue(k) # <<>>

WrittenNames ==
    { toLowerCase(Segs[i].name) : i \in { j \in DOMAIN Segs : WellFormed(Segs[j]) } }

OtherNames == WrittenNames \ {KeyId}

\* the names other than id, each once, in the order first written
RECURSIVE FirstEncounters(_, _)
FirstEncounters(segs, seen) ==
    IF segs = <<>> THEN <<>>
    ELSE LET k == toLowerCase(Head(segs).name)
         IN IF WellFormed(Head(segs)) /\ k # KeyId /\ k \notin seen
            THEN <<k>> \o FirstEncounters(Tail(segs), seen \cup {k})
            ELSE FirstEncounters(Tail(segs), seen)

KeywordWritten == toUpperCase(written.head.kw)

KeywordRecognized ==
    /\ KeywordWritten \in Range(Keywords)
    /\ written.head.sep # <<>>
    /\ Segs # <<>>

\* the text after the keyword and its blanks begins with the literal id=
PrefixWritten == Segs # <<>> /\ Segs[1].name = KeyId

Succeeded == pc = "done" /\ result # NoObject /\ error = NoError
Failed(kind) == pc = "done" /\ result = NoObject /\ error.kind = kind

AttributeKeys == { attributes[i][1] : i \in DOMAIN attributes }

LastWithName(i) ==
    \A j \in DOMAIN Segs :
        j > i => toLowerCase(Segs[j].name) # toLowerCase(Segs[i].name)

(***************************************************************************)
(* Claims                                                                  *)
(***************************************************************************)

\* C1: whenever parseLarkTreeCommand succeeds, the type of the result is the
\* keyword at the start of the trimmed input, uppercased, whatever attributes
\* the command carries, and every attribute of the mapping is a field of the
\* result.
KindIsResolvedKeyword ==
    Succeeded =>
        /\ Get(result, KeyType) = KeywordWritten
        /\ \A k \in AttributeKeys :
              HasKey(result, k) /\ Get(result, k) = Get(attributes, k)

\* C2: a returned Command has an id that is present, non-empty and equal to
\* the value of the last id attribute tokenized from the input; when no id
\* attribute tokenizes (value missing or not a bare token) or the last one is
\* empty-quoted, no Command is returned.
IdPresentAndNonEmpty ==
    /\ Succeeded =>
          /\ HasKey(result, KeyId)
          /\ Get(result, KeyId) # Undefined
          /\ Get(result, KeyId) # <<>>
          /\ Occurrences(KeyId) # {}
          /\ Get(result, KeyId) = LastValue(KeyId)
    /\ (pc = "done" /\ ~Supplies(KeyId)) => result = NoObject

IdOfLastOccurrenceReturned ==
    /\ Succeeded
    /\ Cardinality(Occurrences(KeyId)) >= 2
    /\ Segs[1].content # LastValue(KeyId)
    /\ Get(result, KeyId) = LastValue(KeyId)

\* C3: for each kind, when the keyword is recognized and the text after the
\* keyword and its blanks does not begin with the lowercase literal id=, the
\* parse fails with MissingIdPrefix for that kind, whatever attributes follow.
NoIdPrefixFails ==
    (pc = "done" /\ KeywordRecognized /\ ~PrefixWritten) =>
        /\ Failed("MissingIdPrefix")
        /\ error.cmd = KeywordWritten

MoveWithIdSecondFails ==
    /\ Failed("MissingIdPrefix")
    /\ commandType = MOVE
    /\ ~PrefixWritten
    /\ Supplies(KeyId)
    /\ Supplies(KeyParent)

\* C4: a REMOVE whose text begins with id= and which supplies an id succeeds
\* iff no name other than id is written; otherwise it fails with
\* UnexpectedAttributes listing exactly the other names, each once, in the
\* order in which they were encountered.
RemoveListsExtrasInOrder ==
    (pc = "done" /\ commandType = REMOVE /\ PrefixWritten /\ Supplies(KeyId)) =>
        IF OtherNames = {} THEN Succeeded
        ELSE /\ Failed("UnexpectedAttributes")
             /\ error.names = FirstEncounters(Segs, {})

\* C5: a MOVE whose text begins with id= succeeds exactly when it supplies
\* both id and parent, a RENAME exactly when it supplies both id and label;
\* otherwise the parse fails with MissingRequiredAttribute for that kind, and
\* a returned Command holds the supplied, non-empty values.
RequiredPair(kind) == IF kind = MOVE THEN KeyParent ELSE KeyLabel

MoveRenameNeedBoth ==
    \A kind \in {MOVE, RENAME} :
        (pc = "done" /\ commandType = kind /\ PrefixWritten) =>
            IF Supplies(KeyId) /\ Supplies(RequiredPair(kind))
            THEN /\ Succeeded
                 /\ Get(result, KeyId) = LastValue(KeyId)
                 /\ Get(result, RequiredPair(kind)) = LastValue(RequiredPair(kind))
            ELSE /\ Failed("MissingRequiredAttribute")
                 /\ error.cmd = kind

MoveWithEmptyParentFails ==
    /\ Failed("MissingRequiredAttribute")
    /\ commandType = MOVE
    /\ PrefixWritten
    /\ Supplies(KeyId)
    /\ Occurrences(KeyParent) # {}
    /\ ~Supplies(KeyParent)

\* C6: a SET whose text begins with id= and which supplies an id fails with
\* EmptyAttributeSet iff no name other than id is written (id repeated
\* included); with another name it succeeds and the result carries those
\* attributes.
SetNeedsAnotherAttribute ==
    (pc = "done" /\ commandType = SET /\ PrefixWritten /\ Supplies(KeyId)) =>
        IF OtherNames = {} THEN Failed("EmptyAttributeSet")
        ELSE /\ Succeeded
             /\ \A k \in OtherNames :
                   HasKey(result, k) /\ Get(result, k) = ExpectedValue(k)

SetWithRepeatedIdFails ==
    /\ Failed("EmptyAttributeSet")
    /\ commandType = SET
    /\ Cardinality(Occurrences(KeyId)) >= 2

\* C9: names are folded to lowercase and, for a name written more than once,
\* the value of the last occurrence is the one in the mapping and in the
\* resulting Command; earlier occurrences leave no trace.
LastOccurrenceWins ==
    (pc = "done" /\ attributes # NoObject) =>
        /\ AttributeKeys = WrittenNames
        /\ \A k \in WrittenNames : Get(attributes, k) = ExpectedValue(k)
        /\ Succeeded => \A k \in WrittenNames : Get(result, k) = ExpectedValue(k)

FoldedLabelOverwritten ==
    /\ Succeeded
    /\ commandType = ADD
    /\ Cardinality(Occurrences(KeyLabel)) >= 2
    /\ \E i \in Occurrences(KeyLabel) :
          Segs[i].name # KeyLabel /\ Segs[i].content # LastValue(KeyLabel)
    /\ Get(result, KeyLabel) = LastValue(KeyLabel)

(***************************************************************************)
(* Claims about the tokenizer on its own (SpecTok)                         *)
(***************************************************************************)
RECURSIVE BackslashesBefore(_, _)
BackslashesBefore(c, i) ==
    IF i > 1 /\ c[i - 1] = BS THEN 1 + BackslashesBefore(c, i - 1) ELSE 0

\* every occurrence of q in c is escaped
NoUnescapedQuote(c, q) ==
    \A i \in DOMAIN c : c[i] = q => BackslashesBefore(c, i) % 2 = 1

\* C7: for every double-quoted value whose contents hold no unescaped double
\* quote, the tokenizer captures the contents up to the closing quote and
\* unescapes them (label="a\"b\nc" yields a, double quote, b, newline, c).
EscapedQuoteCaptured ==
    (pc = "done" /\ attributes # NoObject) =>
        \A i \in DOMAIN Segs :
            ( /\ Segs[i].quote = <<DQ>>
              /\ Segs[i].content # <<>>
              /\ NoUnescapedQuote(Segs[i].content, DQ)
              /\ LastWithName(i) )
            => Get(attributes, toLowerCase(Segs[i].name)) = Unescape(Segs[i].content)

SerializeEntry(e) ==
    e[1] \o <<"=", DQ>> \o (IF e[2] = Undefined THEN <<>> ELSE e[2]) \o <<DQ>>

RECURSIVE Serialize(_)
Serialize(obj) ==
    IF obj = <<>> THEN <<>>
    ELSE IF Len(obj) = 1 THEN SerializeEntry(obj[1])
    ELSE SerializeEntry(Head(obj)) \o <<" ">> \o Serialize(Tail(obj))

\* C8: writing each entry of a mapping returned by parseAttributes as
\* name="value", entries separated by a space, and tokenizing that text
\* returns an equal mapping, whatever the values hold.
RetokenizeIsIdentity ==
    (pc = "done" /\ attributes # NoObject) =>
        Range(parseAttributes(Serialize(attributes))) = Range(attributes)

EscapeLiteral(c) ==
    CASE c = "n" -> NL
      [] c = "r" -> CR
      [] c = "t" -> TAB
      [] OTHER -> c

\* one left-to-right pass that never re-reads a character it produced
RECURSIVE OnePassUnescape(_)
OnePassUnescape(s) ==
    IF s = <<>> THEN <<>>
    ELSE IF Len(s) >= 2 /\ s[1] = BS /\ s[2] \in {DQ, SQ, BS, "n", "r", "t"}
    THEN <<EscapeLiteral(s[2])>> \o OnePassUnescape(Slice(s, 2))
    ELSE <<s[1]>> \o OnePassUnescape(Tail(s))

\* C10: the unescaped value of a quoted attribute equals one left-to-right
\* pass over the captured contents replacing each escape sequence by its
\* literal character (an escaped backslash followed by n yields backslash, n).
UnescapeIsOnePass ==
    (pc = "done" /\ attributes # NoObject) =>
        \A i \in DOMAIN Segs :
            ( /\ Segs[i].quote # <<>>
              /\ Segs[i].content # <<>>
              /\ WellFormed(Segs[i])
              /\ LastWithName(i) )
            => Get(attributes, toLowerCase(Segs[i].name)) = OnePassUnescape(Segs[i].content)

====
